---- MODULE Spec2Model ----
(***************************************************************************)
(* Model of the chunker (ReadFiles.get_chunk) and of the vector store      *)
(* (VectorStore) of RAG.ipynb.                                             *)
(*                                                                         *)
(* Strings are sequences of one-character strings.  The tokenizer enc is a  *)
(* parameter of the chunker: it is either one token per character, or a    *)
(* sub-word encoding that merges a run of equal characters into one token, *)
(* as a byte-pair encoding merges a run of newlines.                       *)
(***************************************************************************)
EXTENDS Integers, Sequences, FiniteSets, TLC

VARIABLES
    \* ---- ReadFiles.get_chunk ----
    text,            \* argument text
    max_token_len,   \* argument max_token_len (T)
    cover_content,   \* argument cover_content (C)
    pos,             \* index of the next element of lines the for loop takes
    curr_chunk,      \* local curr_chunk
    curr_len,        \* local curr_len
    chunk_text,      \* local chunk_text, the returned list
    pc,              \* "loop" while get_chunk runs, "done" once it returned
    enc,             \* the module-level tokenizer enc
    \* ---- VectorStore ----
    document,        \* self.document
    vectors,         \* self.vectors
    dir,             \* the directory persist / load_vector work on
    persisted,       \* the store contents handed to the last persist
    last,            \* outcome of the last completed VectorStore call
    \* ---- chat backends ----
    history,         \* the caller's history list
    chat             \* the chat call in progress or last completed

chunkVars == <<text, max_token_len, cover_content, pos, curr_chunk, curr_len,
               chunk_text, pc, enc>>
storeVars == <<document, vectors, dir, persisted, last>>
chatVars == <<history, chat>>
vars == <<text, max_token_len, cover_content, pos, curr_chunk, curr_len,
          chunk_text, pc, enc, document, vectors, dir, persisted, last,
          history, chat>>

(***************************************************************************)
(* Bounds                                                                  *)
(***************************************************************************)
MaxTextLen == 6
MaxT == 3

Alphabet == {"a", "b", " ", "\n"}
Whitespace == {" ", "\n", "\t", "\r"}

Texts == UNION {[1..n -> Alphabet] : n \in 0..MaxTextLen}

Min(a, b) == IF a < b THEN a ELSE b

(***************************************************************************)
(* Python string primitives used by get_chunk                              *)
(***************************************************************************)
\* s[start:end] for 0 <= start, 0 <= end
Slice(s, start, end) ==
    IF start >= Min(end, Len(s)) THEN <<>>
    ELSE SubSeq(s, start + 1, Min(end, Len(s)))

\* s[-c:] for c >= 0; s[-0:] is s[0:], the whole string
NegSlice(s, c) ==
    IF c = 0 \/ c >= Len(s) THEN s
    ELSE SubSeq(s, Len(s) - c + 1, Len(s))

\* s.replace(' ', '')
RECURSIVE RemoveSpaces(_)
RemoveSpaces(s) ==
    IF s = <<>> THEN <<>>
    ELSE IF Head(s) = " " THEN RemoveSpaces(Tail(s))
         ELSE <<Head(s)>> \o RemoveSpaces(Tail(s))

\* s.rstrip()
RECURSIVE RStrip(_)
RStrip(s) ==
    IF s = <<>> THEN <<>>
    ELSE IF s[Len(s)] \in Whitespace THEN RStrip(SubSeq(s, 1, Len(s) - 1))
         ELSE s

\* s.isspace(): non-empty and made of whitespace only
IsSpace(s) == s # <<>> /\ \A i \in 1..Len(s) : s[i] \in Whitespace

\* index of the first "\n" of s, 0 when there is none
RECURSIVE FirstNewline(_, _)
FirstNewline(s, i) ==
    IF i > Len(s) THEN 0
    ELSE IF s[i] = "\n" THEN i ELSE FirstNewline(s, i + 1)

\* text.splitlines(): no empty last line after a final newline
RECURSIVE SplitLines(_)
SplitLines(s) ==
    IF s = <<>> THEN <<>>
    ELSE LET i == FirstNewline(s, 1) IN
         IF i = 0 THEN <<s>>
         ELSE <<SubSeq(s, 1, i - 1)>> \o SplitLines(SubSeq(s, i + 1, Len(s)))

\* the tokenizers enc may be bound to: "char" encodes every character as
\* one token, "merge" encodes every maximal run of equal characters as one
\* token, so that the tokens of a text are fewer than those of its lines
Encodings == {"char", "merge"}

\* the number of maximal runs of equal characters of s
RECURSIVE RunCount(_)
RunCount(s) ==
    IF s = <<>> THEN 0
    ELSE IF Len(s) >= 2 /\ s[1] = s[2] THEN RunCount(Tail(s))
    ELSE 1 + RunCount(Tail(s))

\* len(enc.encode(s))
TokenLen(s) == IF enc = "char" THEN Len(s) ELSE RunCount(s)

(***************************************************************************)
(* ReadFiles.get_chunk                                                     *)
(***************************************************************************)
\* the while loop that moves the window [start, end) of an oversized line
RECURSIVE ShiftWindow(_, _, _, _)
ShiftWindow(line, start, end, line_len) ==
    IF ~IsSpace(RStrip(Slice(line, start, end)))
    THEN IF start + 1 >= line_len
         THEN [start |-> start + 1, end |-> end + 1]
         ELSE ShiftWindow(line, start + 1, end + 1, line_len)
    ELSE [start |-> start, end |-> end]

\* the for loop over range(num_chunks), from iteration i on; st carries
\* curr_chunk, chunk_text and the loop's variable end
RECURSIVE SplitLoop(_, _, _, _, _, _)
SplitLoop(i, num_chunks, line, token_len, cover, st) ==
    IF i >= num_chunks THEN st
    ELSE LET w == ShiftWindow(line, i * token_len, i * token_len + token_len,
                              TokenLen(line))
             cc == NegSlice(st.curr_chunk, cover) \o Slice(line, w.start, w.end)
         IN SplitLoop(i + 1, num_chunks, line, token_len, cover,
                      [curr_chunk |-> cc,
                       chunk_text |-> Append(st.chunk_text, cc),
                       end |-> w.end])

\* the branch taken when line_len > max_token_len
SplitOversized(line, T, cover, st) ==
    LET token_len == T - cover
        line_len == TokenLen(line)
        num_chunks == (line_len + token_len - 1) \div token_len
        lp == SplitLoop(0, num_chunks, line, token_len, cover,
                        [curr_chunk |-> st.curr_chunk,
                         chunk_text |-> st.chunk_text, end |-> 0])
        start == (num_chunks - 1) * token_len
        cc == NegSlice(lp.curr_chunk, cover) \o Slice(line, start, lp.end)
    IN [curr_chunk |-> cc, curr_len |-> st.curr_len,
        chunk_text |-> Append(lp.chunk_text, cc)]

\* Accumulate with the budget test made strict
AccumulateStrict(line, T, cover, st) ==
    LET token_len == T - cover
        line_len == TokenLen(line)
    IN IF st.curr_len + line_len < token_len
       THEN [curr_chunk |-> st.curr_chunk \o line \o <<"\n">>,
             curr_len |-> st.curr_len + line_len + 1,
             chunk_text |-> st.chunk_text]
       ELSE [curr_chunk |-> NegSlice(st.curr_chunk, cover) \o line,
             curr_len |-> line_len + cover,
             chunk_text |-> Append(st.chunk_text, st.curr_chunk)]

\* the accumulate-or-flush statement that ends the loop body
Accumulate(line, T, cover, st) ==
    LET token_len == T - cover
        line_len == TokenLen(line)
    IN IF st.curr_len + line_len <= token_len
       THEN [curr_chunk |-> st.curr_chunk \o line \o <<"\n">>,
             curr_len |-> st.curr_len + line_len + 1,
             chunk_text |-> st.chunk_text]
       ELSE [curr_chunk |-> NegSlice(st.curr_chunk, cover) \o line,
             curr_len |-> line_len + cover,
             chunk_text |-> Append(st.chunk_text, st.curr_chunk)]

\* one iteration of "for line in lines"
ProcessLine(rawline, T, cover, st) ==
    LET line == RemoveSpaces(rawline)
        st1 == IF TokenLen(line) > T THEN SplitOversized(line, T, cover, st)
               ELSE st
    IN Accumulate(line, T, cover, st1)

\* the statements after the loop: flush a non-empty buffer
FinalFlush(st) ==
    IF st.curr_chunk # <<>> THEN Append(st.chunk_text, st.curr_chunk)
    ELSE st.chunk_text

RECURSIVE ChunkLoop(_, _, _, _)
ChunkLoop(lines, T, cover, st) ==
    IF lines = <<>> THEN st
    ELSE ChunkLoop(Tail(lines), T, cover, ProcessLine(Head(lines), T, cover, st))

\* get_chunk as a function of its arguments
get_chunk(txt, T, cover) ==
    FinalFlush(ChunkLoop(SplitLines(txt), T, cover,
                         [curr_chunk |-> <<>>, curr_len |-> 0,
                          chunk_text |-> <<>>]))

lines == SplitLines(text)

NoStore == [op |-> "none"]

\* no chat call was made
ChatIdle ==
    /\ history = <<>>
    /\ chat = [status |-> "none"]

ChunkInit ==
    /\ text \in Texts
    /\ max_token_len \in 1..MaxT
    /\ cover_content \in 0..(max_token_len - 1)
    /\ pos = 1
    /\ curr_chunk = <<>>
    /\ curr_len = 0
    /\ chunk_text = <<>>
    /\ pc = "loop"
    /\ enc = "char"
    /\ document = <<>>
    /\ vectors = <<>>
    /\ dir = NoStore
    /\ persisted = NoStore
    /\ last = NoStore
    /\ ChatIdle

\* one iteration of the for loop of get_chunk
ChunkLine ==
    /\ pc = "loop"
    /\ pos <= Len(lines)
    /\ LET st == ProcessLine(lines[pos], max_token_len, cover_content,
                             [curr_chunk |-> curr_chunk, curr_len |-> curr_len,
                              chunk_text |-> chunk_text])
       IN /\ curr_chunk' = st.curr_chunk
          /\ curr_len' = st.curr_len
          /\ chunk_text' = st.chunk_text
    /\ pos' = pos + 1
    /\ UNCHANGED <<text, max_token_len, cover_content, pc, enc, storeVars,
                   chatVars>>

\* loop exhausted: the final flush and the return
ChunkReturn ==
    /\ pc = "loop"
    /\ pos > Len(lines)
    /\ chunk_text' = FinalFlush([curr_chunk |-> curr_chunk,
                                 chunk_text |-> chunk_text])
    /\ pc' = "done"
    /\ UNCHANGED <<text, max_token_len, cover_content, pos, curr_chunk,
                   curr_len, enc, storeVars, chatVars>>

ChunkNext == ChunkLine \/ ChunkReturn

SpecChunk == ChunkInit /\ [][ChunkNext]_vars

\* get_chunk called with enc bound to any of the tokenizers
ChunkEncInit ==
    /\ text \in Texts
    /\ max_token_len \in 1..MaxT
    /\ cover_content \in 0..(max_token_len - 1)
    /\ pos = 1
    /\ curr_chunk = <<>>
    /\ curr_len = 0
    /\ chunk_text = <<>>
    /\ pc = "loop"
    /\ enc \in Encodings
    /\ document = <<>>
    /\ vectors = <<>>
    /\ dir = NoStore
    /\ persisted = NoStore
    /\ last = NoStore
    /\ ChatIdle

SpecChunkEnc == ChunkEncInit /\ [][ChunkNext]_vars

(***************************************************************************)
(* Properties of get_chunk                                                 *)
(***************************************************************************)
\* the last c characters of s, all of s when it is shorter, none when c = 0
TrailingChars(s, c) ==
    IF c >= Len(s) THEN s ELSE SubSeq(s, Len(s) - c + 1, Len(s))

IsPrefix(p, s) == Len(p) <= Len(s) /\ SubSeq(s, 1, Len(p)) = p

\* every line with its spaces removed and a newline after it, concatenated
RECURSIVE Reassemble(_)
Reassemble(ls) ==
    IF ls = <<>> THEN <<>>
    ELSE RemoveSpaces(Head(ls)) \o <<"\n">> \o Reassemble(Tail(ls))

\* the sub-segments of width w of line, in order, each prefixed with the
\* trailing c characters of the buffer emitted before it
RECURSIVE Segments(_, _, _, _)
Segments(line, w, c, prev) ==
    IF line = <<>> THEN <<>>
    ELSE LET e == TrailingChars(prev, c) \o Slice(line, 0, w)
         IN <<e>> \o Segments(Slice(line, w, Len(line)), w, c, e)

\* C1: every chunk get_chunk returns has at most max_token_len tokens.
C1_ChunksWithinT ==
    pc = "done" =>
        \A i \in 1..Len(chunk_text) : TokenLen(chunk_text[i]) <= max_token_len

\* the length get_chunk has accumulated when it tests the last line of ls:
\* the tokens of every line with its spaces removed, and one more for
\* every line but the last
RECURSIVE LineBudget(_)
LineBudget(ls) ==
    IF ls = <<>> THEN 0
    ELSE IF Len(ls) = 1 THEN TokenLen(RemoveSpaces(Head(ls)))
    ELSE TokenLen(RemoveSpaces(Head(ls))) + 1 + LineBudget(Tail(ls))

\* C2 as stated: every text that encodes to at most T - C tokens, the empty
\* text included, comes back as exactly one chunk, its reassembled lines.
C2_SmallTextOneChunk ==
    (pc = "done" /\ TokenLen(text) <= max_token_len - cover_content)
        => chunk_text = <<Reassemble(lines)>>

\* C2 amended: whatever the tokenizer, every non-empty text whose lines,
\* counted as get_chunk counts them (the tokens of each line with its
\* spaces removed, plus one for every line but the last), come to at most
\* T - C comes back as exactly one chunk, its lines with spaces removed,
\* each followed by a newline; the empty text comes back as no chunk.
C2_NonEmptySmallTextOneChunk ==
    pc = "done" =>
        /\ (text # <<>> /\ LineBudget(lines) <= max_token_len - cover_content)
               => chunk_text = <<Reassemble(lines)>>
        /\ text = <<>> => chunk_text = <<>>

\* a text of two lines with a space and a run the tokenizer merges, within
\* the budget and returned as one chunk
C2_Witness ==
    /\ pc = "done"
    /\ enc = "merge"
    /\ LineBudget(lines) <= max_token_len - cover_content
    /\ Len(lines) >= 2
    /\ \E i \in 1..Len(lines) :
          RunCount(RemoveSpaces(lines[i])) < Len(RemoveSpaces(lines[i]))
    /\ \E i \in 1..Len(text) : text[i] = " "
    /\ Len(chunk_text) = 1

\* C3: each returned chunk after the first begins with the trailing
\* cover_content characters of the chunk before it.
C3_Overlap ==
    pc = "done" =>
        \A i \in 1..(Len(chunk_text) - 1) :
            IsPrefix(TrailingChars(chunk_text[i], cover_content),
                     chunk_text[i + 1])

\* C10: the chunks one loop iteration emits for a line longer than
\* max_token_len are the line's consecutive sub-segments of width T - C, each
\* prefixed with the trailing C characters of the buffer emitted before it,
\* each once.
C10_OversizedSegments ==
    [][(pc = "loop" /\ pos <= Len(lines)
          /\ TokenLen(RemoveSpaces(lines[pos])) > max_token_len)
        => SubSeq(chunk_text', Len(chunk_text) + 1, Len(chunk_text'))
             = Segments(RemoveSpaces(lines[pos]),
                        max_token_len - cover_content, cover_content,
                        curr_chunk)]_vars

\* the line the next loop iteration takes, spaces removed
CurrentLine == RemoveSpaces(lines[pos])

\* curr_chunk, curr_len and chunk_text when the next iteration reaches its
\* accumulate-or-flush statement
BeforeAccumulate ==
    LET st == [curr_chunk |-> curr_chunk, curr_len |-> curr_len,
               chunk_text |-> chunk_text]
    IN IF TokenLen(CurrentLine) > max_token_len
       THEN SplitOversized(CurrentLine, max_token_len, cover_content, st)
       ELSE st

\* the next iteration flushes the buffer
Flushes ==
    /\ pc = "loop"
    /\ pos <= Len(lines)
    /\ BeforeAccumulate.curr_len + TokenLen(CurrentLine)
          > max_token_len - cover_content

\* C13: an iteration that flushes the buffer leaves as new buffer the
\* trailing cover_content characters of the flushed buffer (all of it when
\* shorter, none when cover_content = 0) followed by the current line.
C13_FlushCarriesAtMostC ==
    [][Flushes =>
        curr_chunk' = TrailingChars(BeforeAccumulate.curr_chunk, cover_content)
                        \o CurrentLine]_vars

\* sub occurs in s as a run of consecutive characters
IsSubstring(sub, s) ==
    \E i \in 0..(Len(s) - Len(sub)) : Slice(s, i, i + Len(sub)) = sub

\* C14: every input line of at most max_token_len tokens, spaces removed,
\* is a contiguous substring of at least one returned chunk.
C14_NoLineLost ==
    pc = "done" =>
        \A i \in 1..Len(lines) :
            TokenLen(RemoveSpaces(lines[i])) <= max_token_len
                => \E j \in 1..Len(chunk_text) :
                      IsSubstring(RemoveSpaces(lines[i]), chunk_text[j])

\* C15: get_chunk returns no empty chunk.
C15_NoEmptyChunk ==
    pc = "done" => \A j \in 1..Len(chunk_text) : chunk_text[j] # <<>>

(***************************************************************************)
(* Embedding provider and BaseEmbeddings.cosine_similarity                 *)
(***************************************************************************)
MaxDocs == 2
MaxQueryDocs == 3
MaxVectors == 3
MaxK == 4

\* the chunk texts a store holds and the query texts
Chunks == {"", "x", "xy"}

\* EmbeddingModel.get_embedding: a fixed map from text to vector
Embed(t) ==
    CASE t = "" -> <<0, 0>>
      [] t = "x" -> <<1, 0>>
      [] OTHER -> <<1, 1>>

DocLists == UNION {[1..n -> Chunks] : n \in 0..MaxDocs}
QueryDocLists == UNION {[1..n -> Chunks] : n \in 0..MaxQueryDocs}

RECURSIVE Dot(_, _)
Dot(a, b) ==
    IF a = <<>> \/ b = <<>> THEN 0
    ELSE Head(a) * Head(b) + Dot(Tail(a), Tail(b))

\* cosine_similarity: the value num / sqrt(den2), kept exact; a zero
\* magnitude returns 0
cosine_similarity(vectors1, vectors2) ==
    LET dot_product == Dot(vectors1, vectors2)
        magnitude2 == Dot(vectors1, vectors1) * Dot(vectors2, vectors2)
    IN IF magnitude2 = 0 THEN [num |-> 0, den2 |-> 1]
       ELSE [num |-> dot_product, den2 |-> magnitude2]

get_similarity(vector1, vector2) == cosine_similarity(vector1, vector2)

\* a < b for two similarity values
SimLT(a, b) ==
    IF a.num < 0 /\ b.num >= 0 THEN TRUE
    ELSE IF a.num >= 0 /\ b.num < 0 THEN FALSE
    ELSE IF a.num >= 0
         THEN a.num * a.num * b.den2 < b.num * b.num * a.den2
         ELSE a.num * a.num * b.den2 > b.num * b.num * a.den2

(***************************************************************************)
(* VectorStore                                                             *)
(***************************************************************************)
NoFile == [kind |-> "absent"]
\* a file opened with 'w' whose json.dump did not finish
TruncatedFile == [kind |-> "truncated"]
\* json.dump / json.load of lists of strings and of lists of number lists
JsonDump(v) == [kind |-> "json", value |-> v]
JsonReadable(f) == f.kind = "json"
JsonLoad(f) == f.value

NoDir == [exists |-> FALSE, document |-> NoFile, vectors |-> NoFile]

\* the loop of get_vector from document index i on; fail_at is the index
\* (from 1) of the chunk the provider fails on, 0 when it never fails
RECURSIVE EmbedLoop(_, _, _, _)
EmbedLoop(i, doc, fail_at, st) ==
    IF i > Len(doc) THEN [vectors |-> st.vectors, calls |-> st.calls, ok |-> TRUE]
    ELSE IF i = fail_at
         THEN [vectors |-> st.vectors, calls |-> Append(st.calls, i),
               ok |-> FALSE]
         ELSE EmbedLoop(i + 1, doc, fail_at,
                        [vectors |-> Append(st.vectors, Embed(doc[i])),
                         calls |-> Append(st.calls, i)])

\* get_vector that restores the vectors it started from when the provider fails
get_vector_rollback(doc, vecs, fail_at) ==
    LET r == EmbedLoop(1, doc, fail_at, [vectors |-> vecs, calls |-> <<>>])
    IN IF r.ok THEN r ELSE [r EXCEPT !.vectors = vecs]

get_vector(doc, vecs, fail_at) ==
    EmbedLoop(1, doc, fail_at, [vectors |-> vecs, calls |-> <<>>])

persist(d, doc, vecs) ==
    [exists |-> TRUE,
     document |-> JsonDump(doc),
     vectors |-> IF vecs # <<>> THEN JsonDump(vecs) ELSE d.vectors]

\* persist that raises while it writes document.json or vectors.json: the
\* file being written is left truncated, the files before it are written
persist_interrupted(d, doc, vecs, stage) ==
    IF stage = "document"
    THEN [exists |-> TRUE, document |-> TruncatedFile, vectors |-> d.vectors]
    ELSE [exists |-> TRUE, document |-> JsonDump(doc),
          vectors |-> TruncatedFile]

\* load_vector reads vectors.json, assigns, then reads document.json
load_vector(d, doc, vecs) ==
    IF ~JsonReadable(d.vectors)
    THEN [document |-> doc, vectors |-> vecs, ok |-> FALSE]
    ELSE IF ~JsonReadable(d.document)
         THEN [document |-> doc, vectors |-> JsonLoad(d.vectors), ok |-> FALSE]
         ELSE [document |-> JsonLoad(d.document),
               vectors |-> JsonLoad(d.vectors), ok |-> TRUE]

Reverse(s) == [i \in 1..Len(s) |-> s[Len(s) + 1 - i]]

\* the ascending orders of the indices in S: each starts with an index of
\* least similarity, equal similarities in any order
RECURSIVE SortedOrders(_, _)
SortedOrders(result, S) ==
    IF S = {} THEN {<<>>}
    ELSE UNION {{<<i>> \o rest : rest \in SortedOrders(result, S \ {i})} :
                i \in {m \in S : \A j \in S : ~SimLT(result[j], result[m])}}

\* the orders result.argsort() may return: ascending, ties in any order
ArgSorts(result) == SortedOrders(result, 1..Len(result))

\* result.argsort()[-k:][::-1]
TopK(order, k) == Reverse(NegSlice(order, k))

\* query once the query vector is known and argsort returned order
query(doc, vecs, query_vector, order, k) ==
    LET idx == TopK(order, k)
    IN IF \E j \in 1..Len(idx) : idx[j] > Len(doc)
       THEN [raised |-> "IndexError", idx |-> idx, result |-> <<>>]
       ELSE [raised |-> "", idx |-> idx,
             result |-> [j \in 1..Len(idx) |-> doc[idx[j]]]]

Similarities(vecs, query_vector) ==
    [i \in 1..Len(vecs) |-> get_similarity(query_vector, vecs[i])]

\* what the last completed call did: raised is "" when it returned, clean
\* holds when every call since the store was constructed returned
Outcome(op, raised) ==
    [op |-> op, raised |-> raised,
     clean |-> IF op = "init" THEN TRUE ELSE last.clean /\ raised = "",
     k |-> 0, query_vector |-> <<>>, scores |-> <<>>, idx |-> <<>>,
     result |-> <<>>, pre_vectors |-> <<>>, calls |-> <<>>, fail_at |-> 0]

ChunkIdle ==
    /\ text = <<>>
    /\ max_token_len = 1
    /\ cover_content = 0
    /\ pos = 1
    /\ curr_chunk = <<>>
    /\ curr_len = 0
    /\ chunk_text = <<>>
    /\ pc = "done"
    /\ enc = "char"

\* VectorStore.__init__
NewStore(doc) == [document |-> doc, vectors |-> <<>>]

StoreInit ==
    /\ \E doc \in DocLists :
          /\ document = NewStore(doc).document
          /\ vectors = NewStore(doc).vectors
    /\ dir = NoDir
    /\ persisted = NoStore
    /\ last = [op |-> "init", raised |-> "", clean |-> TRUE, k |-> 0,
               query_vector |-> <<>>, scores |-> <<>>, idx |-> <<>>,
               result |-> <<>>, pre_vectors |-> <<>>, calls |-> <<>>,
               fail_at |-> 0]
    /\ ChunkIdle
    /\ ChatIdle

\* VectorStore(document): a new store object over the same directory
Construct ==
    \E doc \in DocLists :
        /\ document' = NewStore(doc).document
        /\ vectors' = NewStore(doc).vectors
        /\ last' = Outcome("init", "")
        /\ UNCHANGED <<dir, persisted, chunkVars, chatVars>>

GetVector ==
    /\ Len(vectors) + Len(document) <= MaxVectors
    /\ \E fail_at \in 0..Len(document) :
          LET r == get_vector(document, vectors, fail_at)
          IN /\ vectors' = r.vectors
             /\ last' = [Outcome("get_vector",
                                 IF r.ok THEN "" ELSE "provider") EXCEPT
                            !.pre_vectors = vectors, !.calls = r.calls,
                            !.fail_at = fail_at]
    /\ UNCHANGED <<document, dir, persisted, chunkVars, chatVars>>

Persist ==
    /\ dir' = persist(dir, document, vectors)
    /\ persisted' = [op |-> "persist", document |-> document,
                     vectors |-> vectors]
    /\ last' = Outcome("persist", "")
    /\ UNCHANGED <<document, vectors, chunkVars, chatVars>>

\* persist raising in the middle of a write
PersistFail ==
    /\ \E stage \in {"document", "vectors"} :
          /\ stage = "vectors" => vectors # <<>>
          /\ dir' = persist_interrupted(dir, document, vectors, stage)
    /\ persisted' = NoStore
    /\ last' = Outcome("persist", "IOError")
    /\ UNCHANGED <<document, vectors, chunkVars, chatVars>>

LoadVector ==
    /\ LET r == load_vector(dir, document, vectors)
       IN /\ document' = r.document
          /\ vectors' = r.vectors
          /\ last' = Outcome("load_vector", IF r.ok THEN "" ELSE "IOError")
    /\ UNCHANGED <<dir, persisted, chunkVars, chatVars>>

Query ==
    /\ \E q \in Chunks :
          \/ \E k \in 0..MaxK :
                last' = [Outcome("query", "provider") EXCEPT !.k = k]
          \/ \E order \in ArgSorts(Similarities(vectors, Embed(q))) :
                \E k \in 0..MaxK :
                  LET r == query(document, vectors, Embed(q), order, k)
                  IN last' = [Outcome("query", r.raised) EXCEPT
                                 !.k = k, !.query_vector = Embed(q),
                                 !.scores =
                                    Similarities(vectors, Embed(q)),
                                 !.idx = r.idx, !.result = r.result]
    /\ UNCHANGED <<document, vectors, dir, persisted, chunkVars, chatVars>>

StoreNext == Construct \/ GetVector \/ Persist \/ PersistFail \/ LoadVector

SpecStore == StoreInit /\ [][StoreNext]_vars

QueryInit ==
    /\ \E doc \in QueryDocLists :
          /\ document = NewStore(doc).document
          /\ vectors = NewStore(doc).vectors
    /\ dir = NoDir
    /\ persisted = NoStore
    /\ last = [op |-> "init", raised |-> "", clean |-> TRUE, k |-> 0,
               query_vector |-> <<>>, scores |-> <<>>, idx |-> <<>>,
               result |-> <<>>, pre_vectors |-> <<>>, calls |-> <<>>,
               fail_at |-> 0]
    /\ ChunkIdle
    /\ ChatIdle

QueryNext == GetVector \/ Query

SpecQuery == QueryInit /\ [][QueryNext]_vars

(***************************************************************************)
(* Properties of VectorStore                                               *)
(***************************************************************************)
\* the similarity query scored stored vector i with
Score(i) == get_similarity(last.query_vector, vectors[i])

InIdx(i) == \E j \in 1..Len(last.idx) : last.idx[j] = i

\* C4: a query whose embedding call returned does not raise and returns
\* exactly min(k, number of stored vectors) chunks.
C4_QueryReturnsMinK ==
    (last.op = "query" /\ last.raised # "provider")
        => /\ last.raised = ""
           /\ Len(last.result) = Min(last.k, Len(vectors))

\* C5: a query that returns gives the min(k, n) chunks of highest similarity,
\* in non-increasing order of similarity, no chunk left out scoring strictly
\* higher than a returned one, each chunk the one stored at its vector's index.
C5_QueryTopK ==
    (last.op = "query" /\ last.raised = "")
        => /\ Len(last.result) = Min(last.k, Len(vectors))
           /\ \A j \in 1..Len(last.idx) :
                 /\ last.idx[j] \in 1..Len(vectors)
                 /\ last.result[j] = document[last.idx[j]]
           /\ \A i, j \in 1..Len(last.idx) :
                 i < j => /\ last.idx[i] # last.idx[j]
                          /\ ~SimLT(Score(last.idx[i]), Score(last.idx[j]))
           /\ \A i \in 1..Len(vectors), j \in 1..Len(last.idx) :
                 ~InIdx(i) => ~SimLT(Score(last.idx[j]), Score(i))

\* C6: a load_vector that follows a persist succeeds and leaves the store
\* with the document and vectors of the persisted store.
C6_RoundTrip ==
    (last.op = "load_vector" /\ persisted.op = "persist")
        => /\ last.raised = ""
           /\ document = persisted.document
           /\ vectors = persisted.vectors

\* C7: while every call since construction returned, non-empty vectors are
\* index-aligned with document: same length, vectors[i] embeds document[i].
C7_VectorsAligned ==
    (last.clean /\ vectors # <<>>)
        => /\ Len(document) = Len(vectors)
           /\ \A i \in 1..Len(vectors) : vectors[i] = Embed(document[i])

\* C8: after persist both artifacts hold the store's current lists.
C8_PersistWritesBoth ==
    (last.op = "persist" /\ last.raised = "")
        => /\ dir.document = JsonDump(document)
           /\ dir.vectors = JsonDump(vectors)

\* C9: get_vector calls the provider once per chunk in document order up to
\* and including the chunk it fails on, raises exactly when the provider
\* failed, and leaves vectors as its prior content followed by the
\* embeddings of the chunks before the failing one.
C9_GetVectorFailFast ==
    last.op = "get_vector"
        => LET called == IF last.fail_at = 0 THEN Len(document)
                         ELSE last.fail_at
               embedded == IF last.fail_at = 0 THEN Len(document)
                           ELSE last.fail_at - 1
           IN /\ (last.raised = "provider") = (last.fail_at # 0)
              /\ last.calls = [i \in 1..called |-> i]
              /\ vectors = last.pre_vectors
                              \o [i \in 1..embedded |-> Embed(document[i])]

C9_Witness ==
    /\ last.op = "get_vector"
    /\ last.raised = "provider"
    /\ last.fail_at = 2
    /\ last.pre_vectors # <<>>
    /\ Len(vectors) = Len(last.pre_vectors) + 1

\* C16: a load_vector that raises leaves document and vectors as they were;
\* one that returns replaces both with the contents of the two artifacts.
C16_LoadAllOrNothing ==
    [][last'.op = "load_vector" =>
          IF last'.raised # ""
          THEN document' = document /\ vectors' = vectors
          ELSE /\ document' = JsonLoad(dir.document)
               /\ vectors' = JsonLoad(dir.vectors)]_vars

\* np.linalg.norm(v) is 0
ZeroMagnitude(v) == \A i \in 1..Len(v) : v[i] = 0

\* C12: a query whose embedding call returned, and in which the query
\* vector or a stored vector has zero magnitude, completes without error;
\* no similarity in it was computed by dividing by a zero magnitude, and
\* every pair with a zero-magnitude member scored 0.
C12_ZeroMagnitudeScoresZero ==
    (/\ last.op = "query"
     /\ last.raised # "provider"
     /\ \/ ZeroMagnitude(last.query_vector)
        \/ \E i \in 1..Len(vectors) : ZeroMagnitude(vectors[i]))
        => /\ last.raised = ""
           /\ Len(last.scores) = Len(vectors)
           /\ \A i \in 1..Len(vectors) :
                 /\ last.scores[i].den2 # 0
                 /\ (ZeroMagnitude(last.query_vector)
                       \/ ZeroMagnitude(vectors[i]))
                        => last.scores[i].num = 0

(***************************************************************************)
(* Chat backends: OpenAIChat, DashscopeChat, ZhipuChat, InternLMChat       *)
(***************************************************************************)
MaxHistory == 2

Backends == {"OpenAIChat", "DashscopeChat", "ZhipuChat", "InternLMChat"}
Questions == {"q1", "q2"}
Contexts == {"", "ctx"}

\* PROMPT_TEMPLATE: literal text around the two placeholders
PROMPT_TEMPLATE(key) ==
    IF key = "RAG_PROMPT_TEMPALTE"
    THEN <<"rag:question:", "{question}", "rag:context:", "{context}",
           "rag:answer:">>
    ELSE <<"internlm:question:", "{question}", "internlm:context:",
           "{context}", "internlm:answer:">>

\* template.format(question=..., context=...)
Format(template, question, context) ==
    [i \in 1..Len(template) |->
        IF template[i] = "{question}" THEN question
        ELSE IF template[i] = "{context}" THEN context
        ELSE template[i]]

\* the entry the three API backends append
UserTurn(prompt, content) ==
    [role |-> "user",
     content |-> Format(PROMPT_TEMPLATE("RAG_PROMPT_TEMPALTE"), prompt, content)]

\* chat_send on a copy: the request carries the new turn, the caller's list
\* is left as it was
chat_send_copy(backend, hist, prompt, content) ==
    IF backend = "InternLMChat"
    THEN [history |-> hist,
          prompt |-> Format(PROMPT_TEMPLATE("InternLM_PROMPT_TEMPALTE"),
                            prompt, content),
          messages |-> hist]
    ELSE [history |-> hist,
          prompt |-> prompt,
          messages |-> Append(hist, UserTurn(prompt, content))]

\* what chat does up to the provider call: the caller's list afterwards, and
\* the prompt and the message list handed to the provider
chat_send(backend, hist, prompt, content) ==
    IF backend = "InternLMChat"
    THEN [history |-> hist,
          prompt |-> Format(PROMPT_TEMPLATE("InternLM_PROMPT_TEMPALTE"),
                            prompt, content),
          messages |-> hist]
    ELSE [history |-> Append(hist, UserTurn(prompt, content)),
          prompt |-> prompt,
          messages |-> Append(hist, UserTurn(prompt, content))]

ChatInit ==
    /\ history \in {<<>>, <<[role |-> "system", content |-> <<"be brief">>]>>}
    /\ chat = [status |-> "none"]
    /\ document = <<>>
    /\ vectors = <<>>
    /\ dir = NoStore
    /\ persisted = NoStore
    /\ last = NoStore
    /\ ChunkIdle

\* chat(prompt, history, content) up to the provider call; OpenAIChat builds
\* its client first, which raises without credentials
ChatCall ==
    /\ chat.status # "pending"
    /\ Len(history) < MaxHistory
    /\ \E backend \in Backends, prompt \in Questions, content \in Contexts,
          client_ok \in BOOLEAN :
          LET call == [backend |-> backend, prompt |-> prompt,
                       content |-> content, pre_history |-> history]
              sent == chat_send(backend, history, prompt, content)
          IN IF backend = "OpenAIChat" /\ ~client_ok
             THEN /\ history' = history
                  /\ chat' = [status |-> "client_error", call |-> call,
                              sent_prompt |-> <<>>, messages |-> <<>>]
             ELSE /\ history' = sent.history
                  /\ chat' = [status |-> "pending", call |-> call,
                              sent_prompt |-> sent.prompt,
                              messages |-> sent.messages]
    /\ UNCHANGED <<chunkVars, storeVars>>

\* the provider answers: chat returns the response text
ChatReturn ==
    /\ chat.status = "pending"
    /\ chat' = [chat EXCEPT !.status = "returned"]
    /\ UNCHANGED <<history, chunkVars, storeVars>>

\* the provider fails: chat raises its error
ChatRaise ==
    /\ chat.status = "pending"
    /\ chat' = [chat EXCEPT !.status = "raised"]
    /\ UNCHANGED <<history, chunkVars, storeVars>>

ChatNext == ChatCall \/ ChatReturn \/ ChatRaise

SpecChat == ChatInit /\ [][ChatNext]_vars

ProviderInvoked == chat.status \in {"pending", "returned", "raised"}

\* C11 as stated: once the provider is invoked, whichever backend, the
\* caller's history is its prior content plus one user entry holding the
\* backend's template formatted with question and context.
C11_EveryBackendAppends ==
    ProviderInvoked =>
        /\ Len(history) = Len(chat.call.pre_history) + 1
        /\ SubSeq(history, 1, Len(chat.call.pre_history)) = chat.call.pre_history
        /\ history[Len(history)].role = "user"
        /\ history[Len(history)].content
             = Format(PROMPT_TEMPLATE(IF chat.call.backend = "InternLMChat"
                                      THEN "InternLM_PROMPT_TEMPALTE"
                                      ELSE "RAG_PROMPT_TEMPALTE"),
                      chat.call.prompt, chat.call.content)

\* C11 amended: once OpenAIChat, DashscopeChat or ZhipuChat has invoked the
\* provider, the caller's history is its prior content plus exactly one
\* entry {role: user, content: RAG template formatted with question and
\* context}, the provider was handed that list, and this stays so when the
\* provider returns or fails; InternLMChat leaves the caller's history as it
\* was and hands the provider the formatted InternLM template.
C11_ApiBackendsAppend ==
    ProviderInvoked =>
        IF chat.call.backend = "InternLMChat"
        THEN /\ history = chat.call.pre_history
             /\ chat.sent_prompt
                  = Format(PROMPT_TEMPLATE("InternLM_PROMPT_TEMPALTE"),
                           chat.call.prompt, chat.call.content)
        ELSE /\ history = Append(chat.call.pre_history,
                                 [role |-> "user",
                                  content |->
                                    Format(PROMPT_TEMPLATE("RAG_PROMPT_TEMPALTE"),
                                           chat.call.prompt, chat.call.content)])
             /\ chat.messages = history

C11_Witness ==
    /\ chat.status = "raised"
    /\ chat.call.backend = "ZhipuChat"
    /\ chat.call.pre_history # <<>>
    /\ chat.call.content = "ctx"
    /\ Len(history) = Len(chat.call.pre_history) + 1
====
